---- MODULE Spec2Model ----
(***************************************************************************)
(* Model of the docker container watchdog.  The repository holds two       *)
(* scripts with the same design: container-watchdog.py (the earlier one)   *)
(* and container_watchdog.py (the later one, with e-mail notifications).   *)
(* The variable `script` says which of the two is running; every operator  *)
(* that differs between them takes the script as its first argument.       *)
(***************************************************************************)
EXTENDS Integers, Sequences, FiniteSets

\* ------------------------------------------------------------------ bounds
MaxCycles == 3
MaxLog == 2

\* --------------------------------------------------------------- constants
DashScript == "container-watchdog.py"
UnderscoreScript == "container_watchdog.py"
Scripts == {DashScript, UnderscoreScript}

Containers == {1, 2}

\* container.status as the runtime reports it; only "exited" is ever compared
Statuses == {"running", "exited"}
\* State.Health.Status, or the 'nokey' sentinel when there is no Health key
HealthStatuses == {"healthy", "unhealthy", "starting", "nokey"}

Absent == [status |-> "absent", health |-> "absent"]
ContainerStates == [status : Statuses, health : HealthStatuses] \cup {Absent}

\* outcomes of requests.post as the handlers of the two scripts tell them apart
SlackResults == {"ok", "timeout", "request_error"}
\* outcomes of smtplib.SMTP(...) followed by send_message
SmtpResults == {"ok", "connect_error", "send_error"}

NoNotification == [kind |-> "none", id |-> 0]
NoEval == [id |-> 0, status |-> "none", health |-> "none", tracked |-> FALSE,
           restart_called |-> FALSE, restart_ok |-> FALSE, note |-> "none",
           tracker_before |-> <<>>, owed |-> FALSE,
           slack_calls |-> <<>>, smtp_calls |-> <<>>,
           slack_result |-> "none", smtp_result |-> "none"]

\* scen: stage 1 after a cycle saw the container healthy and untracked, 2 after
\* the next cycle saw it unhealthy and restarted it, 3 after the cycle after that
\* saw it healthy; first is the status of the first of the three evaluations and
\* made lists the notifications of the three
NoScenario == [stage |-> 0, first |-> "none", made |-> <<>>]
Made(made, kind) == IF kind = "none" THEN made ELSE Append(made, kind)

\* container.attrs as the classifier reads it: State has a Health key only when
\* the container has a healthcheck; Health.Log holds the last probe results
Outputs == {"ping failed", "pong"}
RECURSIVE LogsUpTo(_)
LogsUpTo(n) ==
    IF n = 0 THEN {<<>>}
    ELSE LogsUpTo(n - 1)
         \cup {Append(l, [Output |-> o]) : l \in {k \in LogsUpTo(n - 1) : Len(k) = n - 1},
                                            o \in Outputs}
WithoutHealth == [State |-> [Status |-> "running"]]
AttrShapes ==
    {WithoutHealth}
    \cup {[State |-> [Status |-> "running", Health |-> [Status |-> h, Log |-> l]]] :
             h \in HealthStatuses \ {"nokey"}, l \in LogsUpTo(MaxLog)}
\* the result of a classifier function that has not run
Unset == [raised |-> FALSE, value |-> "unset"]
Unclassified == [status |-> Unset, log |-> Unset]

\* the other script, run in lockstep on the same containers and restart results
Other(s) == IF s = DashScript THEN UnderscoreScript ELSE DashScript
NoTwin == [sync |-> FALSE, tracker |-> <<>>, restart_status |-> FALSE,
           sleep_kind |-> "none", called |-> FALSE, note |-> "none"]

VARIABLES
    twin,                  \* the state of the other script while it is fed the same
    attrs,                 \* container.attrs of the container being classified
    health_result,         \* what the classifier functions returned for attrs
    script,                \* which of the two scripts runs
    slack_webhook_url,     \* "" or "url"
    smtp_configured,       \* email_receiver != "" and smtp_server != ""
    pc,                    \* "startup", "list", "loop", "exited", "crashed"
    exit_code,             \* the code the process ended with, -1 while running
    crashed_in,            \* history: the call whose exception ended the process
    cycle,                 \* number of iterations of `while True` begun
    runtime,               \* the containers of the docker daemon at the last list()
    container_list,        \* the list the for loop iterates
    idx,                   \* position of the for loop in container_list
    restarted_containers,  \* the list of short ids of restarted containers
    restart_status,        \* restart_status / restartStatus of the cycle
    notification_content,  \* the global dict holding the last message
    sleep_kind,            \* interval of the last time.sleep
    last_eval,             \* history: the evaluation the loop body just did
    notified,              \* history: containers a notification was ever made for
    restarted_ever,        \* history: containers restart() was ever called on
    called_this_cycle,     \* history: containers restart() was called on in this cycle
    seen_bad,              \* history: containers ever evaluated as unhealthy or exited
    issued_since,          \* history: restart() called and not evaluated healthy since
    owed,                  \* history: restart() returned and no recovery notified since
    ok_since,              \* history: restart() returned and not evaluated healthy since
    scen,                  \* history: progress of healthy -> unhealthy -> healthy
    run                    \* history: cycles unhealthy after a good restart, and retries

vars == <<attrs, health_result, twin,
          script, slack_webhook_url, smtp_configured, pc, exit_code, crashed_in, cycle,
          runtime, owed,
          container_list, idx, restarted_containers, restart_status,
          notification_content, sleep_kind, last_eval, notified, restarted_ever,
          called_this_cycle, seen_bad, issued_since, ok_since, scen, run>>

hist == <<last_eval, notified, restarted_ever, called_this_cycle, seen_bad, issued_since,
          ok_since, owed, scen, run>>

\* ----------------------------------------------------------------- helpers
\* `x in list`
In(x, list) == \E i \in 1..Len(list) : list[i] = x

\* number of occurrences of x in list
RECURSIVE Count(_, _)
Count(x, list) ==
    IF list = <<>> THEN 0
    ELSE (IF Head(list) = x THEN 1 ELSE 0) + Count(x, Tail(list))

\* list.remove(x): drops the first occurrence
RECURSIVE Remove(_, _)
Remove(list, x) ==
    IF list = <<>> THEN <<>>
    ELSE IF Head(list) = x THEN Tail(list)
    ELSE <<Head(list)>> \o Remove(Tail(list), x)

\* variant: the append without its `not in` guard
AddRestartedAlways(list, x) == Append(list, x)

\* `if short_id not in restarted_containers: restarted_containers.append(short_id)`
AddRestarted(list, x) == IF In(x, list) THEN list ELSE Append(list, x)

\* client.containers.list(all) lists every container; CLIENT.containers.list()
\* lists the running ones only
Listed(s, c) ==
    /\ c # Absent
    /\ (s = UnderscoreScript => c.status # "exited")

RECURSIVE ListFrom(_, _, _)
ListFrom(s, rt, i) ==
    IF i > Cardinality(Containers) THEN <<>>
    ELSE (IF Listed(s, rt[i])
          THEN <<[id |-> i, status |-> rt[i].status, health |-> rt[i].health]>>
          ELSE <<>>) \o ListFrom(s, rt, i + 1)

ContainersList(s, rt) == ListFrom(s, rt, 1)

\* variant: the restart test written before the recovery test
BranchRestartFirst(s, id, health, status, tracker) ==
    IF health = "unhealthy" \/ (s = DashScript /\ status = "exited") THEN "restart"
    ELSE IF In(id, tracker) /\ health = "healthy" THEN "recovery"
    ELSE "none"

\* variant: a container whose healthcheck is still starting is restarted too
BranchRestartsStarting(s, id, health, status, tracker) ==
    IF In(id, tracker) /\ health = "healthy" THEN "recovery"
    ELSE IF health \in {"unhealthy", "starting"} \/ (s = DashScript /\ status = "exited")
         THEN "restart"
    ELSE "none"

\* variant: a container already in the list is not restarted again
BranchRestartOnce(s, id, health, status, tracker) ==
    IF In(id, tracker) /\ health = "healthy" THEN "recovery"
    ELSE IF In(id, tracker) THEN "none"
    ELSE IF health = "unhealthy" \/ (s = DashScript /\ status = "exited") THEN "restart"
    ELSE "none"

\* variant: the elif tests `!= 'healthy'`, so the 'nokey' sentinel restarts too
BranchRestartsNokey(s, id, health, status, tracker) ==
    IF In(id, tracker) /\ health = "healthy" THEN "recovery"
    ELSE IF health \in {"unhealthy", "nokey"} \/ (s = DashScript /\ status = "exited")
         THEN "restart"
    ELSE "none"

\* variant: the elif of the later script tests `!= 'healthy'`
BranchLaterNotHealthy(s, id, health, status, tracker) ==
    IF In(id, tracker) /\ health = "healthy" THEN "recovery"
    ELSE IF s = DashScript
         THEN (IF health = "unhealthy" \/ status = "exited" THEN "restart" ELSE "none")
         ELSE (IF health # "healthy" THEN "restart" ELSE "none")

\* the if / elif of the loop body
Branch(s, id, health, status, tracker) ==
    IF In(id, tracker) /\ health = "healthy" THEN "recovery"
    ELSE IF s = DashScript
         THEN (IF health = "unhealthy" \/ status = "exited" THEN "restart" ELSE "none")
         ELSE (IF health = "unhealthy" THEN "restart" ELSE "none")

\* variant: the except branch writes the message of the try branch
KindAlwaysRestart(b, ok) ==
    IF b = "recovery" THEN "recovery"
    ELSE IF b = "restart" THEN "restart"
    ELSE "none"

\* the notification the branch writes into the content dict
Kind(b, ok) ==
    IF b = "recovery" THEN "recovery"
    ELSE IF b = "restart" THEN (IF ok THEN "restart" ELSE "restart-failure")
    ELSE "none"

\* variant: the except branch drops the id from the list
NextTrackerDropsOnFailure(b, ok, tracker, id) ==
    IF b = "recovery" THEN Remove(tracker, id)
    ELSE IF b = "restart" /\ ok THEN AddRestarted(tracker, id)
    ELSE IF b = "restart" THEN Remove(tracker, id)
    ELSE tracker

\* variant: the recovery branch without its remove()
NextTrackerKeepsRecovered(b, ok, tracker, id) ==
    IF b = "restart" /\ ok THEN AddRestarted(tracker, id) ELSE tracker

\* variant: the append placed after the try / except, so a failed restart adds too
NextTrackerAddsOnFailure(b, ok, tracker, id) ==
    IF b = "recovery" THEN Remove(tracker, id)
    ELSE IF b = "restart" THEN AddRestarted(tracker, id)
    ELSE tracker

\* what the branch does to the list of restarted containers
NextTracker(b, ok, tracker, id) ==
    IF b = "recovery" THEN Remove(tracker, id)
    ELSE IF b = "restart" /\ ok THEN AddRestarted(tracker, id)
    ELSE tracker

\* variant: `restart_status = True` inside the try, after restart()
NextRestartStatusOnSuccess(b, ok, status) == IF b = "restart" /\ ok THEN TRUE ELSE status

\* `restart_status = True` closes the restart branch, whatever restart() did
NextRestartStatus(b, ok, status) == IF b = "restart" THEN TRUE ELSE status

\* the interval of the sleep that ends the cycle
SleepInterval(status) ==
    IF status THEN "polling_interval_after_restart" ELSE "polling_interval"

\* sendSlackMessage / send_slack_message: "done" when it returns, "raise" when
\* an exception leaves it
send_slack_message(s, url, result) ==
    IF url = "" THEN "done"
    ELSE IF result = "ok" THEN "done"
    ELSE IF s = DashScript THEN "done"
    ELSE IF result = "timeout" THEN "done"
    ELSE "raise"

\* send_smtp_message; the earlier script has no e-mail transport
send_smtp_message(s, configured, result) ==
    IF s = DashScript \/ ~configured THEN "done"
    ELSE IF result = "connect_error" THEN "raise"
    ELSE "done"

\* `key in dict`: a lookup of a missing key raises KeyError
HasKey(dict, key) == key \in DOMAIN dict

\* container_object.attrs['State']['Health']['Status']: the value, or the error
StatusLookup(a) ==
    IF ~HasKey(a, "State") \/ ~HasKey(a.State, "Health")
       \/ ~HasKey(a.State.Health, "Status")
    THEN [err |-> "KeyError", value |-> ""]
    ELSE [err |-> "none", value |-> a.State.Health.Status]

\* container_object.attrs['State']['Health']['Log'][-1]['Output']
LogLookup(a) ==
    IF ~HasKey(a, "State") \/ ~HasKey(a.State, "Health")
       \/ ~HasKey(a.State.Health, "Log")
    THEN [err |-> "KeyError", value |-> ""]
    ELSE IF Len(a.State.Health.Log) = 0 THEN [err |-> "IndexError", value |-> ""]
    ELSE LET last == a.State.Health.Log[Len(a.State.Health.Log)]
         IN IF ~HasKey(last, "Output") THEN [err |-> "KeyError", value |-> ""]
            ELSE [err |-> "none", value |-> last.Output]

\* get_container_health_status, and the try / except of the earlier script
get_container_health_status(a) ==
    LET r == StatusLookup(a)
    IN IF r.err = "none" THEN [raised |-> FALSE, value |-> r.value]
       ELSE IF r.err = "KeyError" THEN [raised |-> FALSE, value |-> "nokey"]
       ELSE [raised |-> TRUE, value |-> r.err]

\* variant: Log[0] in place of Log[-1], and no `except IndexError`
get_container_health_log_first(a) ==
    LET r == LogLookup(a)
    IN IF r.err = "none"
       THEN [raised |-> FALSE, value |-> a.State.Health.Log[1].Output]
       ELSE IF r.err = "KeyError" THEN [raised |-> FALSE, value |-> "nokey"]
       ELSE [raised |-> TRUE, value |-> r.err]

\* get_container_health_log
get_container_health_log(a) ==
    LET r == LogLookup(a)
    IN IF r.err = "none" THEN [raised |-> FALSE, value |-> r.value]
       ELSE IF r.err = "KeyError" THEN [raised |-> FALSE, value |-> "nokey"]
       ELSE IF r.err = "IndexError" THEN [raised |-> FALSE, value |-> "empty"]
       ELSE [raised |-> TRUE, value |-> r.err]

\* the contents send_slack_message is called with during an evaluation
SlackCalls(b, content) == IF b = "none" THEN <<>> ELSE <<content>>

\* what the webhook transport did with the content: "off" without a URL
SlackResult(b, url, sl) ==
    IF b = "none" THEN "none" ELSE IF url = "" THEN "off" ELSE sl

\* the contents send_smtp_message is called with during an evaluation: the call
\* follows the one of send_slack_message, and the earlier script has none
SmtpCalls(s, b, content, slack_raised) ==
    IF b = "none" \/ s = DashScript \/ slack_raised THEN <<>> ELSE <<content>>

\* what the SMTP transport did with the content: "off" without receiver or server
SmtpResult(s, b, configured, slack_raised, sm) ==
    IF b = "none" \/ s = DashScript \/ slack_raised THEN "none"
    ELSE IF ~configured THEN "off"
    ELSE sm

\* the two calls that follow every action of the loop body
Notify(s, url, configured, sl, sm) ==
    IF send_slack_message(s, url, sl) = "raise" THEN "raise"
    ELSE send_smtp_message(s, configured, sm)

\* the branch the other script takes; a copy of Branch, so that a change of
\* Branch is a change of the running script alone
TwinBranch(s, id, health, status, tracker) ==
    IF In(id, tracker) /\ health = "healthy" THEN "recovery"
    ELSE IF s = DashScript
         THEN (IF health = "unhealthy" \/ status = "exited" THEN "restart" ELSE "none")
         ELSE (IF health = "unhealthy" THEN "restart" ELSE "none")

\* top of the other script's `while True`; the lockstep ends for good with the
\* first cycle that has an exited container
TwinLists(t, rt) ==
    IF ~t.sync \/ (\E i \in Containers : rt[i].status = "exited") THEN NoTwin
    ELSE [t EXCEPT !.restart_status = FALSE, !.called = FALSE, !.note = "none"]

\* the other script's loop body on the container at the same position, with
\* the same result of restart()
TwinEvaluates(t, s, rt, i, ok) ==
    IF ~t.sync \/ i > Len(ContainersList(s, rt)) THEN NoTwin
    ELSE LET c == ContainersList(s, rt)[i]
             b == TwinBranch(s, c.id, c.health, c.status, t.tracker)
         IN [t EXCEPT !.tracker = NextTracker(b, ok, t.tracker, c.id),
                      !.restart_status = NextRestartStatus(b, ok, t.restart_status),
                      !.called = (b = "restart"),
                      !.note = Kind(b, ok)]

\* the other script's sleep
TwinSleeps(t) ==
    IF ~t.sync THEN NoTwin
    ELSE [t EXCEPT !.sleep_kind = SleepInterval(t.restart_status),
                   !.called = FALSE, !.note = "none"]

\* ------------------------------------------------------------------- state
TypeOK ==
    /\ script \in Scripts
    /\ slack_webhook_url \in {"", "url"}
    /\ smtp_configured \in BOOLEAN
    /\ pc \in {"startup", "list", "loop", "exited", "crashed"}
    /\ cycle \in 0..MaxCycles
    /\ runtime \in [Containers -> ContainerStates]
    /\ idx \in 1..(Cardinality(Containers) + 1)
    /\ restart_status \in BOOLEAN
    /\ called_this_cycle \subseteq Containers
    /\ seen_bad \subseteq Containers

Init ==
    /\ twin = [NoTwin EXCEPT !.sync = TRUE]
    /\ attrs = WithoutHealth
    /\ health_result = Unclassified
    /\ script \in Scripts
    /\ slack_webhook_url \in {"", "url"}
    /\ smtp_configured \in (IF script = DashScript THEN {FALSE} ELSE BOOLEAN)
    /\ pc = "startup"
    /\ exit_code = -1
    /\ crashed_in = "none"
    /\ owed = [i \in Containers |-> FALSE]
    /\ cycle = 0
    /\ runtime = [i \in Containers |-> Absent]
    /\ container_list = <<>>
    /\ idx = 1
    /\ restarted_containers = <<>>
    /\ restart_status = FALSE
    /\ notification_content = NoNotification
    /\ sleep_kind = "none"
    /\ last_eval = NoEval
    /\ notified = {}
    /\ restarted_ever = {}
    /\ called_this_cycle = {}
    /\ seen_bad = {}
    /\ issued_since = [i \in Containers |-> FALSE]
    /\ ok_since = [i \in Containers |-> FALSE]
    /\ scen = [i \in Containers |-> NoScenario]
    /\ run = [i \in Containers |-> [n |-> 0, r |-> 0]]

\* ----------------------------------------------------------------- actions
\* docker.from_env() and version() succeed
StartupOk ==
    /\ pc = "startup"
    /\ pc' = "list"
    /\ UNCHANGED <<attrs, health_result, twin, script, slack_webhook_url, smtp_configured, exit_code, crashed_in,
                   cycle, runtime, container_list, idx, restarted_containers,
                   restart_status, notification_content, sleep_kind>>
    /\ UNCHANGED hist

\* the docker socket cannot be reached: exit() / sys.exit() without an argument
StartupFails ==
    /\ pc = "startup"
    /\ pc' = "exited"
    /\ exit_code' = 0
    /\ UNCHANGED <<attrs, health_result, twin, script, slack_webhook_url, smtp_configured, crashed_in, cycle,
                   runtime, container_list, idx, restarted_containers,
                   restart_status, notification_content, sleep_kind>>
    /\ UNCHANGED hist

\* top of `while True`: restart_status = False, then the containers are listed
ListContainers ==
    /\ pc = "list"
    /\ cycle < MaxCycles
    /\ \E rt \in [Containers -> ContainerStates] :
        /\ runtime' = rt
        /\ twin' = TwinLists(twin, rt)
        /\ container_list' = ContainersList(script, rt)
        /\ scen' = [i \in Containers |->
                      IF Listed(script, rt[i]) THEN scen[i] ELSE NoScenario]
        /\ run' = [i \in Containers |->
                      IF Listed(script, rt[i]) THEN run[i] ELSE [n |-> 0, r |-> 0]]
    /\ idx' = 1
    /\ pc' = "loop"
    /\ cycle' = cycle + 1
    /\ restart_status' = FALSE
    /\ called_this_cycle' = {}
    /\ last_eval' = NoEval
    /\ UNCHANGED <<attrs, health_result, script, slack_webhook_url, smtp_configured, exit_code, crashed_in,
                   restarted_containers, notification_content, sleep_kind,
                   notified, restarted_ever, seen_bad, issued_since, ok_since, owed>>

\* containers.list raises (the daemon went away): nothing catches it
ListFails ==
    /\ pc = "list"
    /\ cycle < MaxCycles
    /\ pc' = "crashed"
    /\ exit_code' = 1
    /\ crashed_in' = "list"
    /\ cycle' = cycle + 1
    /\ restart_status' = FALSE
    /\ UNCHANGED <<attrs, health_result, twin, script, slack_webhook_url, smtp_configured, runtime,
                   container_list, idx, restarted_containers,
                   notification_content, sleep_kind>>
    /\ UNCHANGED hist

\* one pass of the loop body over container_list[idx], taking branch b; ok is
\* whether container.restart() returns, sl and sm what the transports do
Evaluate(b, ok, sl, sm) ==
    /\ pc = "loop"
    /\ idx <= Len(container_list)
    /\ LET c == container_list[idx]
           id == c.id
           tracked == In(id, restarted_containers)
           called == b = "restart"
           healthy == c.health = "healthy"
           kind == Kind(b, ok)
           raised == b # "none"
                     /\ Notify(script, slack_webhook_url, smtp_configured, sl, sm) = "raise"
           tracker == NextTracker(b, ok, restarted_containers, id)
           content == [kind |-> kind, id |-> id]
           slack_raised == b # "none"
                           /\ send_slack_message(script, slack_webhook_url, sl) = "raise"
       IN
        /\ b = Branch(script, id, c.health, c.status, restarted_containers)
        /\ restarted_containers' = tracker
        /\ twin' = TwinEvaluates(twin, Other(script), runtime, idx, ok)
        /\ notification_content' =
              IF b = "none" THEN notification_content ELSE [kind |-> kind, id |-> id]
        /\ restart_status' = IF raised THEN restart_status
                              ELSE NextRestartStatus(b, ok, restart_status)
        /\ pc' = IF raised THEN "crashed" ELSE "loop"
        /\ exit_code' = IF raised THEN 1 ELSE exit_code
        /\ crashed_in' = IF raised THEN "notify" ELSE crashed_in
        /\ idx' = IF raised THEN idx ELSE idx + 1
        /\ last_eval' = [id |-> id, status |-> c.status, health |-> c.health,
                         tracked |-> tracked, restart_called |-> called,
                         restart_ok |-> called /\ ok, note |-> kind,
                         tracker_before |-> restarted_containers,
                         owed |-> owed[id],
                         slack_calls |-> SlackCalls(b, content),
                         smtp_calls |-> SmtpCalls(script, b, content, slack_raised),
                         slack_result |-> SlackResult(b, slack_webhook_url, sl),
                         smtp_result |-> SmtpResult(script, b, smtp_configured,
                                                    slack_raised, sm)]
        /\ owed' = [owed EXCEPT ![id] =
                      IF kind = "recovery" THEN FALSE
                      ELSE IF kind = "restart" THEN TRUE ELSE @]
        /\ notified' = IF kind = "none" THEN notified ELSE notified \cup {id}
        /\ restarted_ever' = IF called THEN restarted_ever \cup {id} ELSE restarted_ever
        /\ called_this_cycle' = IF called THEN called_this_cycle \cup {id}
                                ELSE called_this_cycle
        /\ seen_bad' = IF c.health = "unhealthy" \/ c.status = "exited"
                       THEN seen_bad \cup {id} ELSE seen_bad
        /\ issued_since' = [issued_since EXCEPT ![id] =
                              IF healthy THEN called ELSE (@ \/ called)]
        /\ ok_since' = [ok_since EXCEPT ![id] =
                              IF healthy THEN (called /\ ok) ELSE (@ \/ (called /\ ok))]
        /\ scen' = [scen EXCEPT ![id] =
                      IF @.stage = 1 /\ c.health = "unhealthy" /\ called /\ ok
                      THEN [stage |-> 2, first |-> @.first, made |-> Made(@.made, kind)]
                      ELSE IF @.stage = 2 /\ healthy
                      THEN [stage |-> 3, first |-> @.first, made |-> Made(@.made, kind)]
                      ELSE IF healthy /\ ~tracked
                      THEN [stage |-> 1, first |-> c.status, made |-> Made(<<>>, kind)]
                      ELSE NoScenario]
        /\ run' = [run EXCEPT ![id] =
                      IF ok_since[id] /\ c.health = "unhealthy"
                      THEN [n |-> @.n + 1, r |-> @.r + (IF called THEN 1 ELSE 0)]
                      ELSE [n |-> 0, r |-> 0]]
    /\ UNCHANGED <<attrs, health_result, script, slack_webhook_url, smtp_configured, cycle, runtime,
                   container_list, sleep_kind>>

\* the container was restarted earlier and is healthy now
Recovered ==
    \E sl \in SlackResults, sm \in SmtpResults : Evaluate("recovery", FALSE, sl, sm)

\* container.restart() returns
RestartSucceeds ==
    \E sl \in SlackResults, sm \in SmtpResults : Evaluate("restart", TRUE, sl, sm)

\* container.restart() raises
RestartFails ==
    \E sl \in SlackResults, sm \in SmtpResults : Evaluate("restart", FALSE, sl, sm)

\* neither the if nor the elif holds
NoAction == Evaluate("none", FALSE, "ok", "ok")

\* the for loop is over: time.sleep with the interval restart_status selects
Sleep ==
    /\ pc = "loop"
    /\ idx > Len(container_list)
    /\ sleep_kind' = SleepInterval(restart_status)
    /\ twin' = TwinSleeps(twin)
    /\ pc' = "list"
    /\ last_eval' = NoEval
    /\ UNCHANGED <<attrs, health_result, script, slack_webhook_url, smtp_configured, exit_code, crashed_in,
                   cycle, runtime, container_list, idx, restarted_containers,
                   restart_status, notification_content, notified, restarted_ever,
                   called_this_cycle, seen_bad, issued_since, ok_since, owed, scen, run>>

Next ==
    \/ StartupOk
    \/ StartupFails
    \/ ListContainers
    \/ ListFails
    \/ Recovered
    \/ RestartSucceeds
    \/ RestartFails
    \/ NoAction
    \/ Sleep

Spec == Init /\ [][Next]_vars

\* ------------------------------------------------------ the health classifier
\* the classifier functions applied to every shape of attrs
loop_vars == <<script, slack_webhook_url, smtp_configured, pc, exit_code, crashed_in,
               cycle, runtime, container_list, idx, restarted_containers,
               restart_status, notification_content, sleep_kind, hist>>

InitClassifier ==
    /\ twin = NoTwin
    /\ attrs \in AttrShapes
    /\ health_result = Unclassified
    /\ script \in Scripts
    /\ slack_webhook_url = ""
    /\ smtp_configured = FALSE
    /\ pc = "loop"
    /\ exit_code = -1
    /\ crashed_in = "none"
    /\ owed = [i \in Containers |-> FALSE]
    /\ cycle = 0
    /\ runtime = [i \in Containers |-> Absent]
    /\ container_list = <<>>
    /\ idx = 1
    /\ restarted_containers = <<>>
    /\ restart_status = FALSE
    /\ notification_content = NoNotification
    /\ sleep_kind = "none"
    /\ last_eval = NoEval
    /\ notified = {}
    /\ restarted_ever = {}
    /\ called_this_cycle = {}
    /\ seen_bad = {}
    /\ issued_since = [i \in Containers |-> FALSE]
    /\ ok_since = [i \in Containers |-> FALSE]
    /\ scen = [i \in Containers |-> NoScenario]
    /\ run = [i \in Containers |-> [n |-> 0, r |-> 0]]

\* container_health_status = get_container_health_status(container), or the
\* try / except KeyError of the earlier script
ClassifyStatus ==
    /\ health_result.status = Unset
    /\ health_result' = [health_result EXCEPT !.status = get_container_health_status(attrs)]
    /\ UNCHANGED <<attrs, twin, loop_vars>>

\* container_health_log = get_container_health_log(container); the earlier
\* script does not read the log
ClassifyLog ==
    /\ script = UnderscoreScript
    /\ health_result.log = Unset
    /\ health_result' = [health_result EXCEPT !.log = get_container_health_log(attrs)]
    /\ UNCHANGED <<attrs, twin, loop_vars>>

NextClassifier ==
    \/ ClassifyStatus
    \/ ClassifyLog

SpecClassifier == InitClassifier /\ [][NextClassifier]_vars

\* ================================================================== claims
\* the evaluation the loop body just did, when there is one
Evaluated == last_eval # NoEval
RestartFailed == Evaluated /\ last_eval.restart_called /\ ~last_eval.restart_ok

\* C1: every evaluation of a listed container has exactly one outcome, chosen
\* in priority order: recovery (notification "recovery", no restart call) when
\* the id was in the list of restarted containers and the health is healthy;
\* otherwise a restart call (notification "restart" or "restart-failure") when
\* the health is unhealthy or the status is exited; otherwise nothing.
C1_OneOutcomeByPriority ==
    Evaluated =>
        LET recover == last_eval.tracked /\ last_eval.health = "healthy"
            failing == last_eval.health = "unhealthy" \/ last_eval.status = "exited"
        IN /\ recover => last_eval.note = "recovery" /\ ~last_eval.restart_called
           /\ (~recover /\ failing) =>
                 /\ last_eval.restart_called
                 /\ last_eval.note \in {"restart", "restart-failure"}
           /\ (~recover /\ ~failing) =>
                 /\ ~last_eval.restart_called
                 /\ last_eval.note = "none"

\* a tracked container seen healthy and exited: recovered, not restarted
C1_Witness ==
    /\ Evaluated
    /\ last_eval.tracked
    /\ last_eval.health = "healthy"
    /\ last_eval.status = "exited"
    /\ last_eval.note = "recovery"

\* C2 as claimed: a container seen healthy and untracked, then unhealthy in the
\* next cycle with a restart that succeeds, then healthy in the cycle after,
\* gets exactly two notifications over those cycles, restart then recovery; it
\* is in the list of restarted containers after the first and out of it after
\* the second.
C2_RestartThenRecovery ==
    \A id \in Containers :
        /\ scen[id].stage = 2 =>
              /\ scen[id].made = <<"restart">>
              /\ In(id, restarted_containers)
        /\ scen[id].stage = 3 =>
              /\ scen[id].made = <<"restart", "recovery">>
              /\ ~In(id, restarted_containers)

\* C2, amended: the same, for a container whose status was not exited when it
\* was first seen healthy and untracked.
C2_RunningRestartThenRecovery ==
    \A id \in Containers :
        scen[id].first # "exited" =>
            /\ scen[id].stage = 2 =>
                  /\ scen[id].made = <<"restart">>
                  /\ In(id, restarted_containers)
            /\ scen[id].stage = 3 =>
                  /\ scen[id].made = <<"restart", "recovery">>
                  /\ ~In(id, restarted_containers)

C2_Witness ==
    \E id \in Containers : scen[id].stage = 3 /\ scen[id].first = "running"

\* C3 as claimed: an id is in the list of restarted containers iff restart() was
\* called for it and no evaluation has seen it healthy since.
C3_TrackedIffRestartIssued ==
    \A id \in Containers : In(id, restarted_containers) <=> issued_since[id]

\* C3, amended: an id is in the list of restarted containers iff a restart()
\* call for it succeeded and no evaluation has seen it healthy since.
C3_TrackedIffRestartSucceeded ==
    \A id \in Containers : In(id, restarted_containers) <=> ok_since[id]

\* one id tracked after a good restart, another one not tracked after a failed one
C3_Witness ==
    \E id, other \in Containers :
        /\ ok_since[id] /\ In(id, restarted_containers)
        /\ issued_since[other] /\ ~ok_since[other] /\ ~In(other, restarted_containers)

\* C4 as claimed: after a restart() call that raised, the notification is
\* restart-failure and the id is not in the list of restarted containers.
C4_FailureLeavesUntracked ==
    RestartFailed =>
        /\ last_eval.note = "restart-failure"
        /\ notification_content = [kind |-> "restart-failure", id |-> last_eval.id]
        /\ ~In(last_eval.id, restarted_containers)

\* C4, amended: after a restart() call that raised, the notification is
\* restart-failure, and the id is in the list of restarted containers only if
\* it was there before the evaluation.
C4_FailureNotifiedNotAdded ==
    RestartFailed =>
        /\ last_eval.note = "restart-failure"
        /\ notification_content = [kind |-> "restart-failure", id |-> last_eval.id]
        /\ (In(last_eval.id, restarted_containers) => last_eval.tracked)

\* a failed restart of a container an earlier cycle had restarted
C4_Witness == RestartFailed /\ last_eval.tracked

\* C5: a restart() call that raised leaves the list of restarted containers as
\* it was and the for loop goes on with the next container.
C5_FailureKeepsTrackerAndGoesOn ==
    RestartFailed =>
        /\ restarted_containers = last_eval.tracker_before
        /\ pc = "loop"

\* a cycle has ended: its sleep is done and the next list() has not begun
CycleEnded == pc = "list" /\ cycle > 0

\* C6: by the end of a cycle, restart() has been called on every container
\* that had no healthcheck ('nokey') and the status exited when the cycle began.
C6_ExitedWithoutHealthcheckRestarted ==
    CycleEnded =>
        \A id \in Containers :
            (runtime[id].status = "exited" /\ runtime[id].health = "nokey")
                => id \in called_this_cycle

\* C7: a container never evaluated as unhealthy or exited has had no restart()
\* call and no notification, whatever happened to the others.
C7_QuietContainerUntouched ==
    \A id \in Containers :
        id \notin seen_bad => (id \notin restarted_ever /\ id \notin notified)

\* a container evaluated once more without ever being unhealthy or exited,
\* while the other one was restarted and notified about
C7_Witness ==
    \E other \in Containers :
        /\ Evaluated
        /\ cycle >= 2
        /\ last_eval.id \notin seen_bad
        /\ other # last_eval.id
        /\ other \in restarted_ever
        /\ other \in notified

\* C8: the sleep that ends a cycle uses the interval after a restart iff
\* restart() was called, with either result, during that cycle; otherwise it
\* uses the polling interval.
C8_SleepIntervalByCycleRestarts ==
    CycleEnded =>
        /\ sleep_kind \in {"polling_interval_after_restart", "polling_interval"}
        /\ sleep_kind = "polling_interval_after_restart" <=> called_this_cycle # {}

\* a cycle after one with a restart, itself without a restart call but with a
\* container still tracked: it sleeps the polling interval
C8_Witness ==
    /\ CycleEnded
    /\ cycle >= 2
    /\ restarted_ever # {}
    /\ restarted_containers # <<>>
    /\ called_this_cycle = {}
    /\ sleep_kind = "polling_interval"

\* C9: a container restarted with success and evaluated as unhealthy in each of
\* the n cycles that follow has had restart() called in each of them and is
\* still in the list of restarted containers.
C9_RetriedEveryCycle ==
    \A id \in Containers :
        /\ run[id].r = run[id].n
        /\ run[id].n > 0 => In(id, restarted_containers)

C9_Witness == \E id \in Containers : run[id].n >= 2 /\ run[id].r >= 2

\* C10: no id occurs twice in the list of restarted containers, and after a
\* recovery the recovered id is not in it.
C10_NoDuplicateIds ==
    /\ \A id \in Containers : Count(id, restarted_containers) <= 1
    /\ (Evaluated /\ last_eval.note = "recovery")
          => ~In(last_eval.id, restarted_containers)

\* a restart that succeeded on a container already in the list
C10_Witness ==
    /\ Evaluated
    /\ last_eval.tracked
    /\ last_eval.restart_ok
    /\ Count(last_eval.id, restarted_containers) = 1

\* an evaluation that made a notification
Notifying == Evaluated /\ last_eval.note # "none"

\* C11: a notification is tried on each configured transport on its own: a
\* webhook failure does not keep the content from the SMTP transport, and no
\* transport failure leaves the notifier, so the for loop goes on.
C11_TransportFailuresContained ==
    Notifying =>
        /\ (script = UnderscoreScript /\ smtp_configured) =>
               last_eval.smtp_result \in SmtpResults
        /\ pc = "loop"

\* C12: containers.list() raising inside the loop does not end the process.
C12_ListFailureSurvived == ~(pc = "crashed" /\ crashed_in = "list")

\* C13: when the docker socket cannot be reached at startup the process ends
\* with a non-zero exit code, before any cycle, restart call or notification.
C13_StartupFailureExitsNonZero ==
    pc = "exited" =>
        /\ exit_code > 0
        /\ cycle = 0
        /\ restarted_ever = {}
        /\ notified = {}

\* C14: the evaluation of a container without healthcheck ('nokey') whose status
\* is not exited calls no restart, makes no notification and leaves the list of
\* restarted containers as it was, whether or not its id is in the list.
C14_NoHealthcheckNoAction ==
    (Evaluated /\ last_eval.health = "nokey" /\ last_eval.status # "exited") =>
        /\ ~last_eval.restart_called
        /\ last_eval.note = "none"
        /\ last_eval.slack_calls = <<>>
        /\ last_eval.smtp_calls = <<>>
        /\ restarted_containers = last_eval.tracker_before

\* a tracked container seen running without healthcheck
C14_Witness ==
    /\ Evaluated
    /\ last_eval.health = "nokey"
    /\ last_eval.status = "running"
    /\ last_eval.tracked
    /\ In(last_eval.id, restarted_containers)

\* C15: an evaluation with an action writes one content, of the kind and the
\* container of that action, and each transport of the script is called with it
\* exactly once; an evaluation without action calls no transport.
C15_OneContentOncePerTransport ==
    Evaluated =>
        LET content == [kind |-> last_eval.note, id |-> last_eval.id]
        IN IF last_eval.note = "none"
           THEN last_eval.slack_calls = <<>> /\ last_eval.smtp_calls = <<>>
           ELSE /\ notification_content = content
                /\ last_eval.slack_calls = <<content>>
                /\ script = UnderscoreScript => last_eval.smtp_calls = <<content>>

\* C16: the classifier never raises; without a Health key both the status and
\* the log tail are 'nokey'; with a Health key the status is the reported one,
\* and the log tail is 'empty' for a log without entries and the Output of the
\* last entry otherwise.
C16_ClassifierTotal ==
    LET has == "Health" \in DOMAIN attrs.State
    IN /\ health_result.status # Unset =>
             /\ ~health_result.status.raised
             /\ health_result.status.value =
                   (IF has THEN attrs.State.Health.Status ELSE "nokey")
       /\ health_result.log # Unset =>
             /\ ~health_result.log.raised
             /\ health_result.log.value =
                   (IF ~has THEN "nokey"
                    ELSE IF attrs.State.Health.Log = <<>> THEN "empty"
                    ELSE attrs.State.Health.Log[Len(attrs.State.Health.Log)].Output)

\* a log of two entries with different outputs, classified
C16_Witness ==
    /\ health_result.status # Unset
    /\ health_result.log # Unset
    /\ "Health" \in DOMAIN attrs.State
    /\ Len(attrs.State.Health.Log) = 2
    /\ attrs.State.Health.Log[1].Output # attrs.State.Health.Log[2].Output

\* C17: a recovery notification for an id is made only when a restart of that
\* id has succeeded and no recovery has been notified for it since.
C17_RecoveryFollowsRestart ==
    (Evaluated /\ last_eval.note = "recovery") => last_eval.owed

\* a container seen healthy again after its recovery: no second recovery
C17_Witness ==
    /\ Evaluated
    /\ last_eval.health = "healthy"
    /\ last_eval.note = "none"
    /\ ~last_eval.owed
    /\ last_eval.id \in restarted_ever
    /\ notification_content = [kind |-> "recovery", id |-> last_eval.id]

\* C18: an id leaves the list of restarted containers only in the evaluation
\* of that container, listed and seen healthy.
C18_RemovedOnlyWhenSeenHealthy ==
    [][\A id \in Containers :
          (In(id, restarted_containers) /\ ~In(id, restarted_containers'))
             => /\ last_eval' # NoEval
                /\ last_eval'.id = id
                /\ last_eval'.health = "healthy"
                /\ In([id |-> id, status |-> last_eval'.status,
                       health |-> "healthy"], container_list)
                /\ last_eval'.note = "recovery"]_vars

\* a cycle that ended with a tracked container the runtime no longer lists
C18_Witness ==
    /\ CycleEnded
    /\ cycle >= 2
    /\ \E id \in Containers :
          /\ In(id, restarted_containers)
          /\ ~Listed(script, runtime[id])
          /\ id \notin called_this_cycle

====
